---- MODULE Spec2Model ----
(***************************************************************************)
(* Model of the slack-token service: the per-channel Token queue           *)
(* (src/src/token.rs) and the /slack request handler that drives it        *)
(* (src/src/main.rs, src/src/macros.rs, src/src/commands.rs,               *)
(* src/src/slack.rs).                                                      *)
(*                                                                         *)
(* Positions are zero-based, as in the source: position 0 is the holder.   *)
(***************************************************************************)
EXTENDS Integers, Sequences, FiniteSets, TLC

\* ------------------------------------------------------------------------
\* Bounds of the model
\* ------------------------------------------------------------------------

\* user ids 1..NumIds arrive with the display name "n0"
NumIds == 4
\* user ids 1..NumRenamed also arrive with a second display name "n1"
NumRenamed == 1
\* joins are requested only while the queue, with the joins under way, is
\* shorter than this
MaxQueue == 4
\* worker threads of the server
NumThreads == 2
\* channels of the one team
NumChannels == 2

\* user ids 1..NumConcIds, with the display name "n0", send the requests
\* that are served concurrently
NumConcIds == 2

Threads == 1..NumThreads
\* (team_id, channel_id)
Keys == {<<1, c>> : c \in 1..NumChannels}

\* the thread and the channel of the requests served one after another
SerialThreads == {1}
SerialKeys == {<<1, 1>>}

\* ------------------------------------------------------------------------
\* token.rs: User
\* ------------------------------------------------------------------------

\* User::new
User(id, name) == [user_id |-> id, user_name |-> name]

Users ==
  {User(i, "n0") : i \in 1..NumIds} \cup {User(i, "n1") : i \in 1..NumRenamed}

ConcUsers == {User(i, "n0") : i \in 1..NumConcIds}

\* mutant of UserEq: equality by user_id alone
UserEqById(a, b) == a.user_id = b.user_id

\* #[derive(PartialEq, Eq)] on User: every field is compared
UserEq(a, b) == a.user_id = b.user_id /\ a.user_name = b.user_name

\* User::as_slack_str: "<@{user_id}|{user_name}>"
as_slack_str(u) == <<"<@", u.user_id, "|", u.user_name, ">">>

\* ------------------------------------------------------------------------
\* VecDeque helpers, zero-based
\* ------------------------------------------------------------------------

None == -1

At(s, i) == s[i + 1]

\* iter().position(|u| u == user): index of the first equal element
position(s, user) ==
  IF \E i \in 1..Len(s) : UserEq(s[i], user)
  THEN (CHOOSE i \in 1..Len(s) :
          /\ UserEq(s[i], user)
          /\ \A j \in 1..(i - 1) : ~UserEq(s[j], user)) - 1
  ELSE None

\* VecDeque::swap(i, j)
swap(s, i, j) ==
  [k \in 1..Len(s) |-> IF k = i + 1 THEN s[j + 1]
                       ELSE IF k = j + 1 THEN s[i + 1]
                       ELSE s[k]]

\* VecDeque::remove(i): the sequence without index i
remove(s, i) ==
  [k \in 1..(Len(s) - 1) |-> IF k < i + 1 THEN s[k] ELSE s[k + 1]]

RECURSIVE retain_ne(_, _)
\* VecDeque::retain(|u| u != user)
retain_ne(s, user) ==
  IF s = <<>> THEN <<>>
  ELSE IF UserEq(Head(s), user) THEN retain_ne(Tail(s), user)
       ELSE <<Head(s)>> \o retain_ne(Tail(s), user)

\* ------------------------------------------------------------------------
\* token.rs: the error strings and the results of the Token operations
\* ------------------------------------------------------------------------

AlreadyQueued == "You are already in the queue!"
NotQueued == "You are not in the queue!"
AtEnd == "You are at the end of the queue!"
AlreadyHolding == "You are already holding the token!"
AlreadyNext == "You are already at the start of the queue!"

DomainErrors == {AlreadyQueued, NotQueued, AtEnd, AlreadyHolding, AlreadyNext}

NoUser == [user_id |-> 0, user_name |-> ""]

\* Ok(()) / Ok(user) / Err(e), with the queue the operation leaves behind
Ok(s, v) == [users |-> s, ok |-> TRUE, err |-> "", val |-> v]
Err(s, e) == [users |-> s, ok |-> FALSE, err |-> e, val |-> NoUser]

\* Token::len
len(s) == Len(s)

\* mutant of get: the caller is pushed even when already queued
get_always_push(s, user) ==
  IF position(s, user) = None
  THEN Ok(Append(s, user), NoUser)
  ELSE Err(Append(s, user), AlreadyQueued)

\* Token::get
get(s, user) ==
  IF position(s, user) = None
  THEN Ok(Append(s, user), NoUser)
  ELSE Err(s, AlreadyQueued)

\* mutant of drop: the front element leaves instead of the caller
drop_front(s, user) ==
  IF position(s, user) # None
  THEN Ok(Tail(s), NoUser)
  ELSE Err(s, NotQueued)

RECURSIVE retain_ne_id(_, _)
\* retain(|u| u.user_id != user.user_id)
retain_ne_id(s, user) ==
  IF s = <<>> THEN <<>>
  ELSE IF UserEqById(Head(s), user) THEN retain_ne_id(Tail(s), user)
       ELSE <<Head(s)>> \o retain_ne_id(Tail(s), user)

\* mutant of drop: every entry with the caller's user_id leaves
drop_by_id(s, user) ==
  IF position(s, user) # None
  THEN Ok(retain_ne_id(s, user), NoUser)
  ELSE Err(s, NotQueued)

\* Token::drop
drop(s, user) ==
  IF position(s, user) # None
  THEN Ok(retain_ne(s, user), NoUser)
  ELSE Err(s, NotQueued)

\* mutant of step_back: swaps with the predecessor
step_back_fwd(s, user) ==
  LET pos == position(s, user) IN
  IF pos # None
  THEN IF pos >= len(s) - 1
       THEN Err(s, AtEnd)
       ELSE Ok(swap(s, pos, IF pos = 0 THEN 1 ELSE pos - 1), NoUser)
  ELSE Err(s, NotQueued)

\* Token::step_back
step_back(s, user) ==
  LET pos == position(s, user) IN
  IF pos # None
  THEN IF pos >= len(s) - 1
       THEN Err(s, AtEnd)
       ELSE Ok(swap(s, pos, pos + 1), NoUser)
  ELSE Err(s, NotQueued)

\* the queue with the element at index i moved to index 1, the others shifted
move_to_1(s, i) ==
  [k \in 1..Len(s) |-> IF k = 2 THEN s[i + 1]
                       ELSE IF k > 2 /\ k <= i + 1 THEN s[k - 1]
                       ELSE s[k]]

\* mutant of to_front: moves the caller to position 1 and shifts the rest
to_front_shift(s, user) ==
  LET pos == position(s, user) IN
  IF pos # None
  THEN IF pos = 0 THEN Err(s, AlreadyHolding)
       ELSE IF pos = 1 THEN Err(s, AlreadyNext)
       ELSE Ok(move_to_1(s, pos), NoUser)
  ELSE Err(s, NotQueued)

\* mutant of to_front: swaps the caller with the holder
to_front_0(s, user) ==
  LET pos == position(s, user) IN
  IF pos # None
  THEN IF pos = 0 THEN Err(s, AlreadyHolding)
       ELSE IF pos = 1 THEN Err(s, AlreadyNext)
       ELSE Ok(swap(s, pos, 0), NoUser)
  ELSE Err(s, NotQueued)

\* Token::to_front
to_front(s, user) ==
  LET pos == position(s, user) IN
  IF pos # None
  THEN IF pos = 0 THEN Err(s, AlreadyHolding)
       ELSE IF pos = 1 THEN Err(s, AlreadyNext)
       ELSE Ok(swap(s, pos, 1), NoUser)
  ELSE Err(s, NotQueued)

\* mutant of steal: the swap alone, the former holder stays queued
steal_swap_only(s, user) ==
  LET pos == position(s, user) IN
  IF pos # None
  THEN IF pos = 0 THEN Err(s, AlreadyHolding)
       ELSE Ok(swap(s, pos, 0), At(s, 0))
  ELSE Err(s, NotQueued)

\* mutant of steal: removes before swapping, so the thief is the one evicted
steal_remove_first(s, user) ==
  LET pos == position(s, user) IN
  IF pos # None
  THEN IF pos = 0 THEN Err(s, AlreadyHolding)
       ELSE Ok(remove(s, pos), At(s, pos))
  ELSE Err(s, NotQueued)

\* Token::steal
steal(s, user) ==
  LET pos == position(s, user) IN
  IF pos # None
  THEN IF pos = 0 THEN Err(s, AlreadyHolding)
       ELSE LET swapped == swap(s, pos, 0) IN
            Ok(remove(swapped, pos), At(swapped, pos))
  ELSE Err(s, NotQueued)

\* Token::is_holding: users.front() == Some(user)
is_holding(s, user) == s # <<>> /\ UserEq(At(s, 0), user)

\* Token::iter
iter(s) == s

\* ------------------------------------------------------------------------
\* commands.rs, slack.rs, config.rs: the request and the response
\* ------------------------------------------------------------------------

\* the command texts requests arrive with ("help" matches no command)
CommandTexts == {"list", "get", "drop", "afteryou", "barge", "steal", "help"}

\* the command texts of the requests that are served concurrently
ConcTexts == {"list", "get", "drop", "steal", "help"}
\* the command texts of the requests served while threads may panic, and of
\* those served under fair scheduling
PoisonTexts == {"list", "get", "steal", "help"}

NoCommand == "None"

\* Commands::from_str
from_str(text) ==
  CASE text = "list" -> "List"
    [] text = "get" -> "Get"
    [] text = "drop" -> "Drop"
    [] text = "afteryou" -> "AfterYou"
    [] text = "barge" -> "Barge"
    [] text = "steal" -> "Steal"
    [] OTHER -> NoCommand

\* CommandConfig.token, and the tokens a request may carry
config_token == "secret"
SlashTokens == {"secret", "wrong"}

\* SlashCommandData: the fields the handler reads
SlashCommandData(keys) ==
  [token : SlashTokens, key : keys, user : Users, text : CommandTexts]

NoSlash == [token |-> "", key |-> <<0, 0>>, user |-> NoUser, text |-> ""]

\* Option<String> message of a listing: format!(fmt, user.as_slack_str())
NoText ==
  [some |-> FALSE, arg |-> as_slack_str(NoUser), fmt |-> "", tail |-> ""]
SomeText(u, fmt) ==
  [some |-> TRUE, arg |-> as_slack_str(u), fmt |-> fmt, tail |-> ""]
PlainText(str) ==
  [some |-> TRUE, arg |-> as_slack_str(NoUser), fmt |-> str, tail |-> ""]

NoOneQueued == "No one in the Token queue"

\* SlackResponse::ephemeral_text
ephemeral_text(e) ==
  [response_type |-> "ephemeral", text |-> PlainText(e), attachments |-> <<>>]

\* SlackResponse::inchannel_text
inchannel_text(text) ==
  [response_type |-> "in_channel", text |-> text, attachments |-> <<>>]

\* slack::send_help
send_help ==
  [response_type |-> "ephemeral", text |-> NoText,
   attachments |-> <<<<as_slack_str(NoUser)>>>>]

\* slack::format_list: one attachment, one line per queued user, in order
slack_format_list(text, items) ==
  [response_type |-> "in_channel", text |-> text,
   attachments |-> <<[i \in 1..Len(items) |-> as_slack_str(items[i])]>>]

\* main::format_list
format_list(text, s) ==
  IF len(s) = 0
  THEN IF text.some
       THEN inchannel_text([text EXCEPT !.tail = NoOneQueued])
       ELSE inchannel_text(PlainText(NoOneQueued))
  ELSE slack_format_list(text, iter(s))

\* Result<JSON<SlackResponse>, &'static str> of the handler
NoResponse ==
  [status |-> "", err |-> "", json |-> inchannel_text(NoText)]
ROk(json) == [status |-> "Ok", err |-> "", json |-> json]
RErr(e) == [status |-> "Err", err |-> e, json |-> inchannel_text(NoText)]

\* the Token method each mutating command calls
token_call(cmd, s, user) ==
  CASE cmd = "Get" -> get(s, user)
    [] cmd = "Drop" -> drop(s, user)
    [] cmd = "AfterYou" -> step_back(s, user)
    [] cmd = "Barge" -> to_front(s, user)
    [] cmd = "Steal" -> steal(s, user)

\* the message printlist! is given after each command
list_text(cmd, user) ==
  CASE cmd = "Get" -> SomeText(user, "{} joined the queue")
    [] cmd = "Drop" -> SomeText(user, "{} dropped the token")
    [] cmd = "Barge" -> SomeText(user, "{} barged to the front!")
    [] cmd = "Steal" -> SomeText(user, "{} stole the token!")
    [] OTHER -> NoText

\* return Ok(JSON(SlackResponse::ephemeral_text(e))) of each if-let
domain_error_response(e) == ROk(ephemeral_text(e))

\* the handler panicked: unwrap() of a PoisonError, or an unwinding thread
PoisonError == "called Result::unwrap() on an Err value: PoisonError"
Unwound == "thread panicked"
RPanic(msg) ==
  [status |-> "Panic", err |-> msg, json |-> inchannel_text(NoText)]

\* the &'static str of map_err on token.write() and token.read()
LockFailureW == "unable to lock token (w)"
LockFailureR == "unable to lock token (r)"

\* Token::new
Token_new == <<>>

\* mutant of entry: the map is keyed by the team alone
entry_by_team(key) == <<key[1], 1>>

\* tokens_map.entry((team_id, channel_id)): the slot a request's key selects
entry(key) == key

\* mutant of or_insert: HashMap::insert, a new Token replaces the old one
insert_always(map, k) == TRUE

\* Entry::or_insert: the new Token is inserted under a vacant key only
or_insert(map, k) == k \notin map

\* mutant of unlocked: nothing excludes anything
unlocked_always(writer, readers) == TRUE

\* Mutex / RwLock: a lock can be taken exclusively when no thread holds it
\* (writer = 0) and no thread reads under it; a read needs no writer only
unlocked(writer, readers) == writer = 0 /\ readers = {}

\* ------------------------------------------------------------------------
\* State
\* ------------------------------------------------------------------------

VARIABLES
  tokens_map,   \* keys of Tokens.0, the HashMap behind the Mutex
  users,        \* users[k]: Token.users of the Token registered under k
  mutex,        \* thread holding the Mutex of Tokens.0, 0 when free
  rw_writer,    \* rw_writer[k]: thread holding the write guard of k's RwLock
  rw_readers,   \* rw_readers[k]: threads holding a read guard of k's RwLock
  pc,           \* pc[t]: where thread t stands in the handler
  slash,        \* slash[t]: the form data of the request t serves
  res,          \* res[t]: what the Token method returned to t
  before,       \* before[t]: the queue as t's Token method found it
  response,     \* response[t]: what the handler returned
  joined,       \* joined[k]: the latest Token method call completed on k,
                \* when it was a get that succeeded: who joined which queue
  created,      \* created[k]: how many Tokens were ever inserted under k
  mutex_poisoned,  \* the poison flag of the Mutex of Tokens.0
  rw_poisoned      \* rw_poisoned[k]: the poison flag of k's RwLock

vars ==
  <<tokens_map, users, mutex, rw_writer, rw_readers, pc, slash, res, before,
    response, joined, created, mutex_poisoned, rw_poisoned>>

NoRes == Err(<<>>, "")
NoJoin == [user |-> NoUser, before |-> <<>>]

Init ==
  /\ tokens_map = {}
  /\ users = [k \in Keys |-> <<>>]
  /\ mutex = 0
  /\ rw_writer = [k \in Keys |-> 0]
  /\ rw_readers = [k \in Keys |-> {}]
  /\ pc = [t \in Threads |-> "idle"]
  /\ slash = [t \in Threads |-> NoSlash]
  /\ res = [t \in Threads |-> NoRes]
  /\ before = [t \in Threads |-> <<>>]
  /\ response = [t \in Threads |-> NoResponse]
  /\ joined = [k \in Keys |-> NoJoin]
  /\ created = [k \in Keys |-> 0]
  /\ mutex_poisoned = FALSE
  /\ rw_poisoned = [k \in Keys |-> FALSE]

command(t) == from_str(slash[t].text)

\* ------------------------------------------------------------------------
\* main.rs: the /slack handler, one action per step of a request
\* ------------------------------------------------------------------------

\* the requests at or before the Token call that ask to join k's queue
joins_under_way(k) ==
  {t \in Threads : /\ pc[t] \in {"lock", "write"}
                   /\ slash[t].key = k
                   /\ command(t) = "Get"}

\* a request arrives; the shared secret is checked and the command parsed.
\* Of a request with the wrong secret nothing but the secret is ever read.
slack_request(t, s) ==
  /\ pc[t] = "idle"
  /\ (s.token = config_token /\ from_str(s.text) = "Get") =>
       Len(users[s.key]) + Cardinality(joins_under_way(s.key)) < MaxQueue
  /\ IF s.token # config_token
     THEN /\ slash' = [slash EXCEPT ![t] = [NoSlash EXCEPT !.token = s.token]]
          /\ response' = [response EXCEPT ![t] = RErr("token mismatch")]
          /\ pc' = [pc EXCEPT ![t] = "done"]
     ELSE /\ slash' = [slash EXCEPT ![t] = s]
          /\ response' = response
          /\ pc' = [pc EXCEPT ![t] = "lock"]
  /\ UNCHANGED <<tokens_map, users, mutex, rw_writer, rw_readers, res, before,
                 joined, created, mutex_poisoned, rw_poisoned>>

\* mutant of tokens_lock: the Mutex guard is dropped once the Token is
\* looked up
tokens_lock_released(t) ==
  LET k == entry(slash[t].key) IN
  /\ pc[t] = "lock"
  /\ unlocked(mutex, {})
  /\ IF mutex_poisoned
     THEN /\ response' = [response EXCEPT ![t] = RPanic(PoisonError)]
          /\ pc' = [pc EXCEPT ![t] = "done"]
          /\ UNCHANGED <<mutex, tokens_map, users, created>>
     ELSE /\ mutex' = mutex
          /\ tokens_map' = tokens_map \cup {k}
          /\ users' = IF or_insert(tokens_map, k)
                      THEN [users EXCEPT ![k] = Token_new]
                      ELSE users
          /\ created' = IF or_insert(tokens_map, k)
                        THEN [created EXCEPT ![k] = @ + 1]
                        ELSE created
          /\ pc' = [pc EXCEPT ![t] =
                      CASE command(t) = NoCommand -> "help"
                        [] command(t) = "List" -> "read"
                        [] OTHER -> "write"]
          /\ response' = response
  /\ UNCHANGED <<rw_writer, rw_readers, slash, res, before, joined,
                 mutex_poisoned, rw_poisoned>>

\* tokens.0.lock().unwrap(), entry(key).or_insert(new empty Token), then the
\* match. On a poisoned Mutex unwrap() panics: the guard inside the
\* PoisonError is dropped and the handler returns nothing.
tokens_lock(t) ==
  LET k == entry(slash[t].key) IN
  /\ pc[t] = "lock"
  /\ unlocked(mutex, {})
  /\ IF mutex_poisoned
     THEN /\ response' = [response EXCEPT ![t] = RPanic(PoisonError)]
          /\ pc' = [pc EXCEPT ![t] = "done"]
          /\ UNCHANGED <<mutex, tokens_map, users, created>>
     ELSE /\ mutex' = t
          /\ tokens_map' = tokens_map \cup {k}
          /\ users' = IF or_insert(tokens_map, k)
                      THEN [users EXCEPT ![k] = Token_new]
                      ELSE users
          /\ created' = IF or_insert(tokens_map, k)
                        THEN [created EXCEPT ![k] = @ + 1]
                        ELSE created
          /\ pc' = [pc EXCEPT ![t] =
                      CASE command(t) = NoCommand -> "help"
                        [] command(t) = "List" -> "read"
                        [] OTHER -> "write"]
          /\ response' = response
  /\ UNCHANGED <<rw_writer, rw_readers, slash, res, before, joined,
                 mutex_poisoned, rw_poisoned>>

\* token.write().map_err(..)? and the Token method called through the
\* guard. A steal that finds the caller behind the holder has swapped the
\* two and not yet removed the former holder; every other call is one
\* mutation at most.
token_write(t) ==
  LET k == entry(slash[t].key)
      r == token_call(command(t), users[k], slash[t].user)
  IN /\ pc[t] = "write"
     /\ unlocked(rw_writer[k], rw_readers[k])
     /\ IF rw_poisoned[k]
        THEN /\ response' = [response EXCEPT ![t] = RErr(LockFailureW)]
             /\ mutex' = 0
             /\ pc' = [pc EXCEPT ![t] = "done"]
             /\ UNCHANGED <<rw_writer, before, res, users>>
        ELSE /\ rw_writer' = [rw_writer EXCEPT ![k] = t]
             /\ before' = [before EXCEPT ![t] = users[k]]
             /\ IF command(t) = "Steal" /\ r.ok
                THEN /\ users' = [users EXCEPT ![k] =
                                    swap(@, position(@, slash[t].user), 0)]
                     /\ pc' = [pc EXCEPT ![t] = "swapped"]
                     /\ res' = res
                ELSE /\ users' = [users EXCEPT ![k] = r.users]
                     /\ pc' = [pc EXCEPT ![t] = "wrote"]
                     /\ res' = [res EXCEPT ![t] = r]
             /\ UNCHANGED <<mutex, response>>
     /\ UNCHANGED <<tokens_map, rw_readers, slash, joined, created,
                    mutex_poisoned, rw_poisoned>>

\* Token::steal, its second statement: users.remove(pos) completes the call
steal_remove(t) ==
  LET k == entry(slash[t].key)
      r == steal(before[t], slash[t].user)
  IN /\ pc[t] = "swapped"
     /\ users' = [users EXCEPT ![k] = r.users]
     /\ res' = [res EXCEPT ![t] = r]
     /\ pc' = [pc EXCEPT ![t] = "wrote"]
     /\ UNCHANGED <<tokens_map, mutex, rw_writer, rw_readers, slash, before,
                    response, joined, created, mutex_poisoned, rw_poisoned>>

\* mutant of write_unlock: the return of a domain error leaves the Mutex
\* locked
write_unlock_keeps_mutex(t) ==
  LET k == entry(slash[t].key) IN
  /\ pc[t] = "wrote"
  /\ rw_writer' = [rw_writer EXCEPT ![k] = 0]
  /\ joined' = [joined EXCEPT ![k] =
                  IF command(t) = "Get" /\ res[t].ok
                  THEN [user |-> slash[t].user, before |-> before[t]]
                  ELSE NoJoin]
  /\ IF res[t].ok
     THEN /\ pc' = [pc EXCEPT ![t] = "read"]
          /\ UNCHANGED <<mutex, response>>
     ELSE /\ response' =
               [response EXCEPT ![t] =
                  domain_error_response(res[t].err)]
          /\ mutex' = mutex
          /\ pc' = [pc EXCEPT ![t] = "done"]
  /\ UNCHANGED <<tokens_map, users, rw_readers, slash, res, before, created,
                 mutex_poisoned, rw_poisoned>>

\* mutant of write_unlock: the write guard is kept to the end of the handler
write_unlock_keeps_guard(t) ==
  LET k == entry(slash[t].key) IN
  /\ pc[t] = "wrote"
  /\ rw_writer' = rw_writer
  /\ joined' = [joined EXCEPT ![k] =
                  IF command(t) = "Get" /\ res[t].ok
                  THEN [user |-> slash[t].user, before |-> before[t]]
                  ELSE NoJoin]
  /\ IF res[t].ok
     THEN /\ pc' = [pc EXCEPT ![t] = "read"]
          /\ UNCHANGED <<mutex, response>>
     ELSE /\ response' =
               [response EXCEPT ![t] =
                  domain_error_response(res[t].err)]
          /\ mutex' = 0
          /\ pc' = [pc EXCEPT ![t] = "done"]
  /\ UNCHANGED <<tokens_map, users, rw_readers, slash, res, before, created,
                 mutex_poisoned, rw_poisoned>>

\* end of the if-let: the write guard is dropped; an Err(e) of the Token
\* method returns Ok(JSON(ephemeral_text(e))), which drops the Mutex guard
write_unlock(t) ==
  LET k == entry(slash[t].key) IN
  /\ pc[t] = "wrote"
  /\ rw_writer' = [rw_writer EXCEPT ![k] = 0]
  /\ joined' = [joined EXCEPT ![k] =
                  IF command(t) = "Get" /\ res[t].ok
                  THEN [user |-> slash[t].user, before |-> before[t]]
                  ELSE NoJoin]
  /\ IF res[t].ok
     THEN /\ pc' = [pc EXCEPT ![t] = "read"]
          /\ UNCHANGED <<mutex, response>>
     ELSE /\ response' =
               [response EXCEPT ![t] =
                  domain_error_response(res[t].err)]
          /\ mutex' = 0
          /\ pc' = [pc EXCEPT ![t] = "done"]
  /\ UNCHANGED <<tokens_map, users, rw_readers, slash, res, before, created,
                 mutex_poisoned, rw_poisoned>>

\* printlist!: token.read().map_err(..)?
token_read(t) ==
  LET k == entry(slash[t].key) IN
  /\ pc[t] = "read"
  /\ unlocked(rw_writer[k], {})
  /\ IF rw_poisoned[k]
     THEN /\ response' = [response EXCEPT ![t] = RErr(LockFailureR)]
          /\ mutex' = 0
          /\ pc' = [pc EXCEPT ![t] = "done"]
          /\ rw_readers' = rw_readers
     ELSE /\ rw_readers' = [rw_readers EXCEPT ![k] = @ \cup {t}]
          /\ pc' = [pc EXCEPT ![t] = "format"]
          /\ UNCHANGED <<mutex, response>>
  /\ UNCHANGED <<tokens_map, users, rw_writer, slash, res, before, joined,
                 created, mutex_poisoned, rw_poisoned>>

\* printlist!: return format_list(text, &token); all guards are dropped
printlist_return(t) ==
  LET k == entry(slash[t].key) IN
  /\ pc[t] = "format"
  /\ response' =
       [response EXCEPT ![t] =
          ROk(format_list(list_text(command(t), slash[t].user), users[k]))]
  /\ rw_readers' = [rw_readers EXCEPT ![k] = @ \ {t}]
  /\ mutex' = 0
  /\ pc' = [pc EXCEPT ![t] = "done"]
  /\ UNCHANGED <<tokens_map, users, rw_writer, slash, res, before, joined,
                 created, mutex_poisoned, rw_poisoned>>

\* the default arm of the match: Ok(JSON(send_help()))
help_return(t) ==
  /\ pc[t] = "help"
  /\ response' = [response EXCEPT ![t] = ROk(send_help)]
  /\ mutex' = 0
  /\ pc' = [pc EXCEPT ![t] = "done"]
  /\ UNCHANGED <<tokens_map, users, rw_writer, rw_readers, slash, res, before,
                 joined, created, mutex_poisoned, rw_poisoned>>

\* the response is sent; the thread is free for the next request
slack_done(t) ==
  /\ pc[t] = "done"
  /\ pc' = [pc EXCEPT ![t] = "idle"]
  /\ slash' = [slash EXCEPT ![t] = NoSlash]
  /\ res' = [res EXCEPT ![t] = NoRes]
  /\ before' = [before EXCEPT ![t] = <<>>]
  /\ response' = [response EXCEPT ![t] = NoResponse]
  /\ UNCHANGED <<tokens_map, users, mutex, rw_writer, rw_readers, joined,
                 created, mutex_poisoned, rw_poisoned>>

\* one step of thread t
slack(t) ==
  \/ tokens_lock(t)
  \/ token_write(t)
  \/ steal_remove(t)
  \/ write_unlock(t)
  \/ token_read(t)
  \/ printlist_return(t)
  \/ help_return(t)
  \/ slack_done(t)

\* the requests of one channel, served one after another
Next ==
  \/ \E t \in SerialThreads, s \in SlashCommandData(SerialKeys) :
       slack_request(t, s)
  \/ \E t \in SerialThreads : slack(t)

Spec == Init /\ [][Next]_vars

\* the requests of every channel, served by all worker threads at once
ConcCommandData ==
  [token : {config_token}, key : Keys, user : ConcUsers, text : ConcTexts]

NextConc ==
  \/ \E t \in Threads, s \in ConcCommandData : slack_request(t, s)
  \/ \E t \in Threads : slack(t)

SpecConc == Init /\ [][NextConc]_vars

\* a thread panics while it serves a request and holds the Mutex guard:
\* unwinding drops its guards, which poisons the Mutex, and the RwLock when
\* the write guard was held
panic(t) ==
  /\ pc[t] \in {"help", "write", "swapped", "wrote", "read", "format"}
  /\ mutex = t
  /\ mutex_poisoned' = TRUE
  /\ rw_poisoned' = [k \in Keys |-> rw_poisoned[k] \/ rw_writer[k] = t]
  /\ mutex' = 0
  /\ rw_writer' = [k \in Keys |-> IF rw_writer[k] = t THEN 0 ELSE rw_writer[k]]
  /\ rw_readers' = [k \in Keys |-> rw_readers[k] \ {t}]
  /\ response' = [response EXCEPT ![t] = RPanic(Unwound)]
  /\ pc' = [pc EXCEPT ![t] = "done"]
  /\ UNCHANGED <<tokens_map, users, slash, res, before, joined, created>>

\* the concurrent server, with threads that may panic under a lock
PoisonCommandData ==
  [token : {config_token}, key : Keys, user : ConcUsers, text : PoisonTexts]

NextPoison ==
  \/ \E t \in Threads, s \in PoisonCommandData : slack_request(t, s)
  \/ \E t \in Threads : slack(t)
  \/ \E t \in Threads : panic(t)

SpecPoison == Init /\ [][NextPoison]_vars

\* the requests of one channel, served by all worker threads at once under
\* fair scheduling: a thread that can take a step takes one, and a thread
\* that waits for the Mutex gets it in the end
FairCommandData ==
  [token : {config_token}, key : SerialKeys, user : ConcUsers,
   text : PoisonTexts]

NextFair ==
  \/ \E t \in Threads, s \in FairCommandData : slack_request(t, s)
  \/ \E t \in Threads : slack(t)

SpecFair ==
  /\ Init
  /\ [][NextFair]_vars
  /\ \A t \in Threads : WF_vars(slack(t)) /\ SF_vars(tokens_lock(t))

\* ------------------------------------------------------------------------
\* Vocabulary of the properties
\* ------------------------------------------------------------------------

\* the users of the examples
UA == User(1, "n0")
UB == User(2, "n0")
UC == User(3, "n0")
UD == User(4, "n0")

\* thread t has called the Token method of command cmd and still holds the
\* write guard: before[t] is the queue before the call, users[key] after it
Called(t, cmd) == pc[t] = "wrote" /\ command(t) = cmd

\* zero-based index of the first occurrence of u in s, -1 when absent
PosOf(s, u) ==
  IF \E i \in 1..Len(s) : s[i] = u
  THEN (CHOOSE i \in 1..Len(s) : s[i] = u /\ \A j \in 1..(i - 1) : s[j] # u) - 1
  ELSE -1

\* s without the elements of X, order kept
Without(s, X) == SelectSeq(s, LAMBDA e : e \notin X)

Failed(r, e) == ~r.ok /\ r.err = e

\* no two elements of s share a user_id
DistinctIds(s) ==
  \A i, j \in 1..Len(s) : i # j => s[i].user_id # s[j].user_id

\* ------------------------------------------------------------------------
\* Properties
\* ------------------------------------------------------------------------

\* C1: no two elements of a queue ever share a user_id, also when the same
\* user_id arrives with different user_name values.
C1_UniqueUserId ==
  \A k \in Keys : \A i, j \in 1..Len(users[k]) :
    i # j => users[k][i].user_id # users[k][j].user_id

\* C2: steal is swap-then-remove. With user at position p >= 1 it succeeds,
\* user is at position 0, the former holder is returned and is gone from the
\* queue, the size drops by exactly 1 and the other members keep their
\* relative order; from [A,B,C], steal(C) returns A and leaves [C,B]. At
\* position 0 it fails with AlreadyHolding, absent with NotQueued.
C2_StealSwapThenRemove ==
  \A t \in Threads : Called(t, "Steal") =>
    LET u == slash[t].user
        b == before[t]
        a == users[slash[t].key]
        r == res[t]
        p == PosOf(b, u)
    IN /\ p >= 1 =>
            /\ r.ok
            /\ a[1] = u
            /\ r.val = b[1]
            /\ \A i \in 1..Len(a) : a[i] # b[1]
            /\ Len(a) = Len(b) - 1
            /\ Without(a, {u}) = Without(b, {u, b[1]})
       /\ p = 0 => Failed(r, AlreadyHolding)
       /\ p = -1 => Failed(r, NotQueued)
       /\ (b = <<UA, UB, UC>> /\ u = UC) => (r.val = UA /\ a = <<UC, UB>>)

C2_Witness ==
  \E t \in Threads :
    /\ Called(t, "Steal")
    /\ before[t] = <<UA, UB, UC>>
    /\ slash[t].user = UC
    /\ res[t].ok

\* C3, as stated: after a successful steal(user), user is at position 0, the
\* previous holder is still queued, at the position user had before the
\* steal, and all other members keep their relative order (stated for the
\* queues whose user_ids are distinct).
C3_StealHolderShifted ==
  \A t \in Threads :
    (Called(t, "Steal") /\ res[t].ok /\ DistinctIds(before[t])) =>
    LET u == slash[t].user
        b == before[t]
        a == users[slash[t].key]
        p == PosOf(b, u)
    IN /\ a[1] = u
       /\ Len(a) >= p + 1
       /\ a[p + 1] = b[1]
       /\ Without(a, {u, b[1]}) = Without(b, {u, b[1]})

\* C3, amended: after a successful steal(user) with user at position p, user
\* is at position 0, the previous holder is no longer in the queue, positions
\* 1..p-1 hold who they held and every later position holds its successor.
C3_StealHolderEvicted ==
  \A t \in Threads : (Called(t, "Steal") /\ res[t].ok) =>
    LET u == slash[t].user
        b == before[t]
        a == users[slash[t].key]
        p == PosOf(b, u)
    IN /\ p >= 1
       /\ Len(a) = Len(b) - 1
       /\ a[1] = u
       /\ b[1] \notin {a[i] : i \in 1..Len(a)}
       /\ \A i \in 2..Len(a) : a[i] = IF i <= p THEN b[i] ELSE b[i + 1]

C3_Witness ==
  \E t \in Threads :
    /\ Called(t, "Steal")
    /\ res[t].ok
    /\ Len(before[t]) = 4
    /\ PosOf(before[t], slash[t].user) = 2

\* C4, as stated: from [A,B,C,D], bargeToFront(D) succeeds and leaves
\* [A,D,B,C]; in [A,B,C], bargeToFront(A) fails with AlreadyHolding and
\* bargeToFront(B) with AlreadyNext.
C4_BargeExampleShifted ==
  \A t \in Threads : Called(t, "Barge") =>
    LET u == slash[t].user
        b == before[t]
        a == users[slash[t].key]
        r == res[t]
    IN /\ (b = <<UA, UB, UC, UD>> /\ u = UD) =>
            (r.ok /\ a = <<UA, UD, UB, UC>>)
       /\ (b = <<UA, UB, UC>> /\ u = UA) => Failed(r, AlreadyHolding)
       /\ (b = <<UA, UB, UC>> /\ u = UB) => Failed(r, AlreadyNext)

\* C4, amended: from [A,B,C,D], bargeToFront(D) succeeds and leaves
\* [A,D,C,B]; in [A,B,C], bargeToFront(A) fails with AlreadyHolding and
\* bargeToFront(B) with AlreadyNext.
C4_BargeExampleSwapped ==
  \A t \in Threads : Called(t, "Barge") =>
    LET u == slash[t].user
        b == before[t]
        a == users[slash[t].key]
        r == res[t]
    IN /\ (b = <<UA, UB, UC, UD>> /\ u = UD) =>
            (r.ok /\ a = <<UA, UD, UC, UB>>)
       /\ (b = <<UA, UB, UC>> /\ u = UA) => Failed(r, AlreadyHolding)
       /\ (b = <<UA, UB, UC>> /\ u = UB) => Failed(r, AlreadyNext)

C4_Witness ==
  \E t \in Threads :
    /\ Called(t, "Barge")
    /\ before[t] = <<UA, UB, UC, UD>>
    /\ slash[t].user = UD
    /\ users[slash[t].key] = <<UA, UD, UC, UB>>

\* C5: bargeToFront is a pairwise swap with position 1. With user at
\* position p >= 2 it succeeds and exchanges exactly the elements at 1 and p,
\* every other position and the size staying as they were; it fails with
\* NotQueued when user is absent, AlreadyHolding at position 0, AlreadyNext at
\* position 1, and so never succeeds on fewer than three members.
C5_BargeSwapsWithNext ==
  \A t \in Threads : Called(t, "Barge") =>
    LET u == slash[t].user
        b == before[t]
        a == users[slash[t].key]
        r == res[t]
        p == PosOf(b, u)
    IN /\ p >= 2 =>
            /\ r.ok
            /\ Len(a) = Len(b)
            /\ a[2] = b[p + 1]
            /\ a[p + 1] = b[2]
            /\ \A i \in 1..Len(b) : i \notin {2, p + 1} => a[i] = b[i]
       /\ p = -1 => Failed(r, NotQueued)
       /\ p = 0 => Failed(r, AlreadyHolding)
       /\ p = 1 => Failed(r, AlreadyNext)
       /\ r.ok => Len(b) >= 3

C5_Witness ==
  \E t \in Threads :
    /\ Called(t, "Barge")
    /\ res[t].ok
    /\ Len(before[t]) = 4
    /\ PosOf(before[t], slash[t].user) = 2

\* C6: stepBack is a strict pairwise swap with the immediate successor. With
\* user at position p < size-1 it succeeds and exchanges exactly the elements
\* at p and p+1 ([A,B,C] -> [B,A,C] for A), so user stands one place further
\* back; it fails with AtEnd when user is last (also as the only member) and
\* with NotQueued when user is absent.
C6_StepBackSwapsWithSuccessor ==
  \A t \in Threads : Called(t, "AfterYou") =>
    LET u == slash[t].user
        b == before[t]
        a == users[slash[t].key]
        r == res[t]
        p == PosOf(b, u)
    IN /\ (p >= 0 /\ p < Len(b) - 1) =>
            /\ r.ok
            /\ Len(a) = Len(b)
            /\ a[p + 1] = b[p + 2]
            /\ a[p + 2] = b[p + 1]
            /\ \A i \in 1..Len(b) : i \notin {p + 1, p + 2} => a[i] = b[i]
            /\ PosOf(a, u) = p + 1
       /\ (p >= 0 /\ p = Len(b) - 1) => Failed(r, AtEnd)
       /\ p = -1 => Failed(r, NotQueued)
       /\ (b = <<UA, UB, UC>> /\ u = UA) => a = <<UB, UA, UC>>
       /\ (b = <<UA, UB, UC>> /\ u = UC) => Failed(r, AtEnd)

C6_Witness ==
  \E t \in Threads :
    /\ Called(t, "AfterYou")
    /\ res[t].ok
    /\ Len(before[t]) = 4
    /\ PosOf(before[t], slash[t].user) = 1

\* C7: join is FIFO append keyed by user id: it succeeds exactly when no
\* member with the same user_id is present, user then being the last element
\* with every earlier element in place and the size grown by 1; otherwise it
\* fails with AlreadyQueued. Joining A, B, C into an empty queue gives
\* [A,B,C] of size 3, held by A and not by B or C.
C7_JoinKeyedByUserId ==
  \A t \in Threads : Called(t, "Get") =>
    LET u == slash[t].user
        b == before[t]
        a == users[slash[t].key]
        r == res[t]
        present == \E i \in 1..Len(b) : b[i].user_id = u.user_id
    IN /\ r.ok <=> ~present
       /\ ~present => a = Append(b, u)
       /\ present => Failed(r, AlreadyQueued)
       /\ (b = <<UA, UB>> /\ u = UC) =>
            /\ a = <<UA, UB, UC>>
            /\ len(a) = 3
            /\ is_holding(a, UA)
            /\ ~is_holding(a, UB)
            /\ ~is_holding(a, UC)

\* C8: for every reachable queue q and every user u not in q, join(u)
\* succeeds, and a leave(u) that follows it immediately succeeds and leaves
\* exactly q.
C8_JoinLeaveInverse ==
  \A t \in Threads :
    LET u == slash[t].user
        k == slash[t].key
        b == before[t]
    IN /\ (Called(t, "Get") /\ \A i \in 1..Len(b) : b[i] # u) => res[t].ok
       /\ (Called(t, "Drop") /\ joined[k].user = u) =>
            (res[t].ok /\ users[k] = joined[k].before)

C8_Witness ==
  \E t \in Threads :
    /\ Called(t, "Drop")
    /\ joined[slash[t].key].user = slash[t].user
    /\ Len(joined[slash[t].key].before) >= 2
    /\ res[t].ok

\* C9: leave(user) for a member at any position removes exactly that one
\* member: the size drops by exactly 1 and the others keep their places in
\* order, so the member behind a leaving holder becomes the holder and the
\* queue is empty, with no holder, when the only member leaves; leave fails
\* with NotQueued when user is absent.
C9_LeaveRemovesOne ==
  \A t \in Threads : Called(t, "Drop") =>
    LET u == slash[t].user
        b == before[t]
        a == users[slash[t].key]
        r == res[t]
        p == PosOf(b, u)
    IN /\ p >= 0 =>
            /\ r.ok
            /\ Len(a) = Len(b) - 1
            /\ \A i \in 1..Len(a) : a[i] = IF i <= p THEN b[i] ELSE b[i + 1]
            /\ (p = 0 /\ Len(b) >= 2) => is_holding(a, b[2])
            /\ Len(b) = 1 => (a = <<>> /\ \A v \in Users : ~is_holding(a, v))
       /\ p = -1 => Failed(r, NotQueued)

C9_Witness ==
  \E t \in Threads :
    /\ Called(t, "Drop")
    /\ res[t].ok
    /\ Len(before[t]) >= 3
    /\ PosOf(before[t], slash[t].user) = 0

\* C10: a domain error of join, leave, stepBack, bargeToFront or steal leaves
\* the queue as it was, and the request returns it as an ordinary caller-only
\* (ephemeral) response carrying the error text, not as a failure of the
\* request, and with no queue listing.
C10_DomainErrorsChangeNothing ==
  \A t \in Threads :
    /\ (pc[t] = "wrote" /\ ~res[t].ok) =>
         /\ res[t].err \in DomainErrors
         /\ users[slash[t].key] = before[t]
    /\ (pc[t] = "done" /\ res[t].err \in DomainErrors) =>
         /\ response[t].status = "Ok"
         /\ response[t].json.response_type = "ephemeral"
         /\ response[t].json.text = PlainText(res[t].err)
         /\ response[t].json.attachments = <<>>

C10_Witness ==
  \E t \in Threads :
    /\ pc[t] = "done"
    /\ res[t].err = AlreadyNext
    /\ Len(before[t]) >= 3

\* ------------------------------------------------------------------------
\* Properties of the concurrent server
\* ------------------------------------------------------------------------

\* the channels of the examples
KA == <<1, 1>>
KB == <<1, 2>>

\* C11: a request on one key leaves the queue of every other key unchanged:
\* the queue of k changes only in a step of the Token call of a request for
\* k; and what a request is answered depends on its own key's queue alone:
\* its Token method is called on the queue of its key, and its listing
\* formats the queue of its key.
C11_CrossChannelIsolation ==
  [][/\ \A k \in Keys :
          users'[k] # users[k] =>
            \E t \in Threads : /\ slash[t].key = k
                               /\ pc[t] \in {"write", "swapped"}
                               /\ pc'[t] \in {"swapped", "wrote"}
     /\ \A t \in Threads :
          /\ (pc[t] = "write" /\ pc'[t] \in {"swapped", "wrote"}) =>
               before'[t] = users[slash[t].key]
          /\ (pc[t] = "write" /\ pc'[t] = "wrote") =>
               res'[t] =
                 token_call(command(t), users[slash[t].key], slash[t].user)
          /\ (pc[t] = "format" /\ pc'[t] = "done") =>
               response'[t] =
                 ROk(format_list(list_text(command(t), slash[t].user),
                                 users[slash[t].key]))
    ]_vars

\* a request has changed the queue of one channel while another channel
\* holds a different, non-empty queue and a request for it waits
C11_Witness ==
  \E t, o \in Threads :
    /\ pc[t] = "wrote" /\ res[t].ok
    /\ slash[t].key = KB
    /\ users[KB] # before[t]
    /\ users[KA] # <<>>
    /\ users[KA] # users[KB]
    /\ pc[o] = "lock" /\ slash[o].key = KA

\* C12: however the first requests for an unseen key interleave, one Token
\* is inserted under the key, it starts empty, and a key of the registry is
\* never removed or bound to another Token: later requests find the Token
\* with every join made so far.
C12_OneTokenPerKey ==
  [][\A k \in Keys :
       /\ created[k] <= 1 /\ created'[k] <= 1
       /\ (k \in tokens_map) = (created[k] = 1)
       /\ (k \in tokens_map') = (created'[k] = 1)
       /\ k \in tokens_map => k \in tokens_map' /\ created'[k] = created[k]
       /\ k \notin tokens_map /\ k \in tokens_map' => users'[k] = <<>>
       /\ \A t \in Threads :
            (pc[t] = "lock" /\ pc'[t] # "lock" /\ slash[t].key = k) =>
              /\ k \in tokens_map'
              /\ k \in tokens_map => users'[k] = users[k]
    ]_vars

\* two requests for one key are in flight: one has inserted the Token and
\* joined its empty queue, the other still waits for the registry
C12_Witness ==
  \E t, o \in Threads :
    /\ t # o
    /\ slash[t].key = slash[o].key
    /\ pc[o] = "wrote" /\ command(o) = "Get" /\ res[o].ok
    /\ before[o] = <<>>
    /\ created[slash[o].key] = 1
    /\ pc[t] = "lock" /\ command(t) = "Get"

\* C13: a request for one key never waits for a lock held by a request that
\* reads or writes (or is about to read or write) the queue of another key
\* that is already in the registry.
C13_NoCrossQueueBlocking ==
  \A a, b \in Threads :
    ~ /\ pc[a] = "lock"
      /\ mutex = b
      /\ pc[b] \in {"write", "swapped", "wrote", "read", "format"}
      /\ slash[a].key # slash[b].key
      /\ slash[a].key \in tokens_map
      /\ slash[b].key \in tokens_map

\* the requests that hold the write guard, the read guard of k's RwLock
Writing(k) ==
  {t \in Threads : pc[t] \in {"swapped", "wrote"} /\ slash[t].key = k}
Reading(k) == {t \in Threads : pc[t] = "format" /\ slash[t].key = k}

\* C14: while a request holds write access to a queue no other request
\* holds read or write access to it, and no request reads a queue that a
\* steal has swapped and not yet shortened.
C14_ReaderWriterExclusion ==
  \A k \in Keys :
    /\ Cardinality(Writing(k)) <= 1
    /\ Writing(k) # {} => Reading(k) = {}
    /\ Writing(k) = (IF rw_writer[k] = 0 THEN {} ELSE {rw_writer[k]})
    /\ Reading(k) = rw_readers[k]
    /\ Reading(k) # {} =>
         ~\E o \in Threads : pc[o] = "swapped" /\ slash[o].key = k

\* a steal holds the write guard between its swap and its remove while a
\* request to list the same queue is in flight
C14_Witness ==
  \E t, o \in Threads :
    /\ pc[t] = "swapped"
    /\ pc[o] = "lock" /\ command(o) = "List"
    /\ slash[o].key = slash[t].key

\* C15: read access to a queue is shared: some reachable state has two
\* requests holding read access to the same queue at once. Stated on the
\* request that comes second: while a request holds read access to a queue,
\* a request that arrives to list the same queue is not kept waiting, it
\* can go on to take its own read access.
C15_SharedReaders ==
  \A t, o \in Threads :
    (/\ pc[t] = "format"
     /\ pc[o] = "lock" /\ command(o) = "List"
     /\ slash[o].key = slash[t].key) => ENABLED tokens_lock(o)

\* what the handler does instead: read access to a queue is never held by
\* two requests at once
C15_NeverTwoReaders ==
  \A k \in Keys :
    Cardinality(Reading(k)) <= 1 /\ Cardinality(rw_readers[k]) <= 1

\* the locks thread t holds
HoldsNothing(t) ==
  /\ mutex # t
  /\ \A k \in Keys : rw_writer[k] # t /\ t \notin rw_readers[k]

\* C16: a request that has finished, by a listing, a domain error, the help
\* text or a lock failure, holds neither the registry Mutex nor a read or
\* write guard; and when no request is in progress every lock is free.
C16_ScopesReleased ==
  /\ \A t \in Threads : pc[t] \in {"idle", "done"} => HoldsNothing(t)
  /\ (\A t \in Threads : pc[t] \in {"idle", "done"}) =>
       /\ mutex = 0
       /\ \A k \in Keys : rw_writer[k] = 0 /\ rw_readers[k] = {}

\* one request has ended on a poisoned lock, the other on a domain error
C16_Witness ==
  \E t, o \in Threads :
    /\ pc[t] = "done" /\ response[t] = RPanic(PoisonError)
    /\ pc[o] = "done" /\ response[o].status = "Ok" /\ ~res[o].ok
    /\ res[o].err \in DomainErrors

\* some request is in progress and no thread can take a step
Deadlocked ==
  /\ \E t \in Threads : pc[t] # "idle"
  /\ ~ENABLED (\E t \in Threads : slack(t))

LockFailures == {PoisonError, LockFailureW, LockFailureR}

\* C18: a request whose acquisition of the registry Mutex or of a queue's
\* read or write lock fails on a poisoned lock returns an error result: an
\* Err that is no domain error, no listing and no queue-empty response; it
\* changes no queue and is not retried.
C18_LockFailureIsErrorResult ==
  \A t \in Threads :
    (pc[t] = "done" /\ response[t].err \in LockFailures) =>
      /\ response[t].status = "Err"
      /\ response[t].err \notin DomainErrors
      /\ res[t] = NoRes

\* the commands that call a Token method
Mutating == {"Get", "Drop", "AfterYou", "Barge", "Steal"}

\* C19: the listing a successful get, drop, afteryou, barge or steal is
\* answered with shows the queue as that request's own Token call left it,
\* however the requests interleave: from the call to the listing no other
\* request changes the queue.
C19_ListingMatchesOwnMutation ==
  \A t \in Threads :
    (command(t) \in Mutating /\ res[t].ok) =>
      /\ pc[t] \in {"read", "format"} =>
           users[slash[t].key] = res[t].users
      /\ pc[t] = "done" =>
           response[t] =
             ROk(format_list(list_text(command(t), slash[t].user),
                             res[t].users))

\* a steal has been answered with its listing of the queue while another
\* request to change the same queue waits for the registry
C19_Witness ==
  \E t, o \in Threads :
    /\ pc[t] = "done" /\ command(t) = "Steal" /\ res[t].ok
    /\ response[t].status = "Ok"
    /\ pc[o] = "lock" /\ command(o) \in Mutating
    /\ slash[o].key = slash[t].key

\* the holder of queue s: its front element
Holder(s) == IF s = <<>> THEN NoUser ELSE At(s, 0)

\* the Token method of cmd, called by u on queue b, returned r and left a:
\* the holder is as before unless the call is one that may change it
HolderStable(b, a, u, cmd, r) ==
  /\ ~r.ok => a = b
  /\ (b # <<>> /\ Holder(a) # Holder(b)) =>
       /\ r.ok
       /\ \/ cmd \in {"Drop", "AfterYou"} /\ u = Holder(b)
          \/ cmd = "Steal" /\ u # Holder(b) /\ PosOf(b, u) >= 1
  /\ (b = <<>> /\ a # <<>>) => cmd = "Get" /\ r.ok /\ Holder(a) = u

\* C20: the holder of a non-empty queue changes only through a successful
\* drop or afteryou of the holder or a successful steal of another member;
\* a join to a non-empty queue, a barge, a drop or afteryou of a non-holder,
\* a listing and every failing call leave the holder as it is; an empty
\* queue gains a holder only through a join.
C20_HolderStability ==
  [][/\ \A k \in Keys :
          users'[k] # users[k] =>
            \E t \in Threads : /\ slash[t].key = k
                               /\ command(t) \in Mutating
                               /\ pc[t] \in {"write", "swapped"}
     /\ \A t \in Threads :
          (pc[t] # "wrote" /\ pc'[t] = "wrote") =>
            HolderStable(before'[t], users'[slash[t].key], slash[t].user,
                         command(t), res'[t])
    ]_vars

\* a member behind the holder has stolen the token from a queue of three
C20_Witness ==
  \E t \in Threads :
    /\ Called(t, "Steal") /\ res[t].ok
    /\ Len(before[t]) >= 3
    /\ Holder(before[t]) # slash[t].user
    /\ Holder(users[slash[t].key]) = slash[t].user

====
